---- MODULE Spec2Model ----
(***************************************************************************)
(* A model of src/views/nodes/viewNode.ts: the ViewNode tree (parent links *)
(* and splatted flags), the gated triggerChange with its delegation to the *)
(* parent, and the subscription life cycle of SubscribeableViewNode        *)
(* (canSubscribe, ensureSubscription, unsubscribe, dispose and the host's  *)
(* visibility / auto-refresh listeners).                                   *)
(*                                                                         *)
(* JavaScript runs one job at a time.  A call into a node runs to its      *)
(* first await; what follows an await is a continuation that is queued as  *)
(* a microtask once the awaited promise is settled.  The model keeps the   *)
(* microtask queue (mq) and, per promise, the continuations waiting on it. *)
(***************************************************************************)
EXTENDS Integers, Sequences, FiniteSets, TLC

\* ------------------------------------------------------------------ bounds
NumNodes == 3        \* nodes of the tree
MaxSubscribes == 3   \* subscribe() invocations in one behaviour
MaxDispose == 2      \* dispose() calls on one node in one behaviour
MaxRefreshes == 2    \* view.refreshNode calls in flight at one time

Nodes == 1..NumNodes
None == 0            \* undefined: no parent, no subscription, no gate promise

VARIABLES
    parent,              \* ViewNode.parent, fixed by the constructor
    splatted,            \* ViewNode.splatted
    subscribeable,       \* the nodes that are SubscribeableViewNodes
    supportsAutoRefresh, \* viewSupportsAutoRefresh(view)
    visible,             \* view.visible
    autoRefresh,         \* view.autoRefresh
    canSubscribe,        \* SubscribeableViewNode._canSubscribe, per node
    subscription,        \* SubscribeableViewNode._subscription, per node: a promise of subs or None
    subs,                \* the promises made from subscribe()'s results, in call order
    esGate,              \* gate slot of ensureSubscription, per node
    tcGate,              \* gate slot of triggerChange, per node
    refreshing,          \* per target, the number of view.refreshNode calls in flight
    disposals,           \* per node: _disposable.dispose() calls so far (0: listeners registered)
    state,               \* SubscribeableViewNode._state, per node: the last known collapsible state
    hooks,               \* per node, the optional hooks its subtype defines
    mq,                  \* the microtask queue
    obs                  \* what the latest call into a node did

vars == <<parent, splatted, subscribeable, supportsAutoRefresh, visible, autoRefresh,
          canSubscribe, subscription, subs, esGate, tcGate, refreshing,
          disposals, state, hooks, mq, obs>>

\* The part of the state a call into a node reads and writes, as one record
\* that the operators below pass along.
Cur ==
    [visible |-> visible, autoRefresh |-> autoRefresh, canSubscribe |-> canSubscribe,
     subscription |-> subscription, subs |-> subs, esGate |-> esGate,
     tcGate |-> tcGate, refreshing |-> refreshing,
     disposals |-> disposals, state |-> state, mq |-> mq, obs |-> obs]

\* A promise nothing refers to any more (no slot, no continuation) that was
\* released cleanly (a resource disposed once, or no resource and no dispose)
\* is kept as "done": nothing can act on it again.
referenced(S, p) ==
    \/ \E n \in Nodes : S.subscription[n] = p
    \/ S.subs[p].waiters # <<>>
    \/ \E i \in 1..Len(S.mq) : S.mq[i].p = p

clean(r) ==
    \/ r.st = "resource" /\ r.disposed = 1
    \/ r.st \in {"nothing", "rejected"} /\ r.disposed = 0

forget(S) ==
    [S EXCEPT !.subs = [p \in 1..Len(@) |->
        IF clean(@[p]) /\ ~referenced(S, p)
        THEN [@[p] EXCEPT !.st = "done", !.disposed = 0]
        ELSE @[p]]]

Commit(S) ==
    /\ visible' = S.visible
    /\ autoRefresh' = S.autoRefresh
    /\ canSubscribe' = S.canSubscribe
    /\ subscription' = S.subscription
    /\ subs' = S.subs
    /\ esGate' = S.esGate
    /\ tcGate' = S.tcGate
    /\ refreshing' = S.refreshing
    /\ disposals' = S.disposals
    /\ state' = S.state
    /\ mq' = S.mq
    /\ obs' = S.obs
    /\ UNCHANGED <<parent, splatted, subscribeable, supportsAutoRefresh, hooks>>

\* ------------------------------------------------------------ observations
\* obs describes the latest step when it was a call into a node, or the run of
\* a continuation:
\*   op, node       the call and its receiver
\*   ensures        ensureSubscription invocations made by the step
\*   gated          ensureSubscription found its gate slot taken and joined
\*   subscribes     subscribe() invocations made by the step
\*   unsubscribes   unsubscribe() invocations made by the step
\*   triggers       triggerChange invocations the handler made on its receiver
\*   atTrigger      the receiver's subscription state when the handler invoked triggerChange
\*   ensuresAtTrigger, subscribesAtTrigger  ensures and subscribes at that moment
\*   esDoneAtTrigger  no ensureSubscription of the receiver was in flight at that moment
\*   reset, force   the arguments of a direct triggerChange call
\*   refreshes      the view.refreshNode calls the step started, in order
\*   rejected       an ensureSubscription promise was rejected in the step
\*   result         what getParent() returned
\*   hooks          the onStateChanged / onParentStateChanged invocations of the step, in order
\*   unsubscribesAtDispose  unsubscribe() invocations made when _disposable.dispose() was called
\*   disposes       dispose() invocations on subscription resources made by the step
\*   eState         the state carried by a node-state-change event (node is its element)
NoObs ==
    [op |-> "none", node |-> None, ensures |-> 0, gated |-> FALSE, subscribes |-> 0,
     unsubscribes |-> 0, triggers |-> 0, atTrigger |-> "none", ensuresAtTrigger |-> 0,
     subscribesAtTrigger |-> 0, esDoneAtTrigger |-> FALSE, reset |-> FALSE, force |-> FALSE,
     refreshes |-> <<>>, rejected |-> FALSE, result |-> None, hooks |-> <<>>,
     unsubscribesAtDispose |-> 0, disposes |-> 0, eState |-> None]

\* ------------------------------------------------------------------- tree
\* getParent() that steps over one splatted parent only.
getParent_grandparent(n) ==
    IF parent[n] # None /\ splatted[parent[n]]
    THEN parent[parent[n]]
    ELSE parent[n]

\* getParent(): the parent, or, when the parent is splatted, the parent's
\* getParent().
RECURSIVE getParent(_)
getParent(n) ==
    IF parent[n] # None /\ splatted[parent[n]]
    THEN getParent(parent[n])
    ELSE parent[n]

\* view.refreshNode(node, reset, force): the host starts a refresh and returns
\* its completion signal.  What the host does with reset and force is its own
\* business; the call and its arguments are recorded in obs.
refreshNode(S, n, reset, force) ==
    [S EXCEPT !.refreshing[n] = @ + 1,
              !.obs.refreshes = Append(@, [target |-> n, reset |-> reset, force |-> force])]

\* @gate(): one slot per node and method.  A call that finds the slot taken
\* returns the promise in flight and does not run the method body; otherwise
\* the body runs and the slot holds the promise it returned until that promise
\* settles.
gateTaken(slot) == slot # None

\* triggerChange(reset, force) behind its gate.  tcGate[n] names the refresh
\* the promise in n's slot waits for, by its target: n itself for n's own
\* refreshNode call, and for a splatted n whatever the promise that the
\* parent's triggerChange returned waits for.
RECURSIVE triggerChange(_, _, _, _)

\* triggerChange that asks the host to refresh the parent itself instead of
\* going through the parent's triggerChange.
triggerChangeBody_refreshParent(S, n, reset, force) ==
    IF splatted[n] /\ parent[n] # None
    THEN [refreshNode(S, parent[n], reset, force) EXCEPT !.tcGate[n] = parent[n]]
    ELSE [refreshNode(S, n, reset, force) EXCEPT !.tcGate[n] = n]

\* triggerChange that delegates with no arguments.
triggerChangeBody_dropFlags(S, n, reset, force) ==
    IF splatted[n] /\ parent[n] # None
    THEN LET S1 == triggerChange(S, parent[n], FALSE, FALSE)
         IN [S1 EXCEPT !.tcGate[n] = S1.tcGate[parent[n]]]
    ELSE [refreshNode(S, n, reset, force) EXCEPT !.tcGate[n] = n]

triggerChangeBody(S, n, reset, force) ==
    IF splatted[n] /\ parent[n] # None
    THEN LET S1 == triggerChange(S, parent[n], reset, force)
         IN [S1 EXCEPT !.tcGate[n] = S1.tcGate[parent[n]]]
    ELSE [refreshNode(S, n, reset, force) EXCEPT !.tcGate[n] = n]

\* triggerChange behind one gate slot shared by all nodes.
triggerChange_sharedGate(S, n, reset, force) ==
    IF \E m \in Nodes : gateTaken(S.tcGate[m])
    THEN S
    ELSE triggerChangeBody(S, n, reset, force)

\* triggerChange without its gate.
triggerChange_noGate(S, n, reset, force) ==
    triggerChangeBody(S, n, reset, force)

triggerChange(S, n, reset, force) ==
    IF gateTaken(S.tcGate[n])
    THEN S
    ELSE triggerChangeBody(S, n, reset, force)

\* ----------------------------------------------------------- subscription
\* A promise made from subscribe()'s result: who owns it, how it stands
\* ("pending", or settled: "resource" a Disposable, "nothing" undefined,
\* "rejected"), how often its resource's dispose() was called, and the
\* continuations waiting on it, in the order they started to wait.
Outcomes == {"throw", "pending", "resource", "nothing"}
Settled == {"resource", "nothing", "rejected"}

Cont(k, n, p, from, ok) == [k |-> k, n |-> n, p |-> p, from |-> from, ok |-> ok]

\* await p: the continuation runs as a microtask once p is settled.
await(S, p, cont) ==
    IF S.subs[p].st = "pending"
    THEN [S EXCEPT !.subs[p].waiters = Append(@, cont)]
    ELSE [S EXCEPT !.mq = Append(@, cont)]

\* The node's subscription state, read off its _subscription slot.
subState(S, n) ==
    IF S.subscription[n] = None THEN "Unsubscribed"
    ELSE LET st == S.subs[S.subscription[n]].st
         IN CASE st = "pending" -> "SubscriptionPending"
              [] st = "resource" -> "Subscribed"
              [] st = "nothing" -> "Empty"
              [] OTHER -> "Failed"

\* The condition of ensureSubscription, negated: canSubscribe, the view is
\* visible and, when the view supports auto-refresh, auto-refresh is on.
eligible(S, n) ==
    ~ ( \/ ~S.canSubscribe[n]
        \/ ~S.visible
        \/ (supportsAutoRefresh /\ ~S.autoRefresh) )

\* unsubscribe() that leaves the promise in the slot while it waits for it.
unsubscribe_keepSlot(S, n, from) ==
    LET S1 == [S EXCEPT !.obs.unsubscribes = @ + 1]
        p == S.subscription[n]
    IN IF p # None
       THEN await(S1, p, Cont("unsubscribe", n, p, from, TRUE))
       ELSE IF from = "ensure"
            THEN [S1 EXCEPT !.mq = Append(@, Cont("ensureAfterUnsubscribe", n, None, from, TRUE))]
            ELSE S1

\* unsubscribe(), to its await: take the promise out of the slot, empty the
\* slot, wait for the promise.  With an empty slot it returns at once; a caller
\* that awaits it (ensureSubscription) then resumes in a microtask.
unsubscribe(S, n, from) ==
    LET S1 == [S EXCEPT !.obs.unsubscribes = @ + 1]
        p == S.subscription[n]
    IN IF p # None
       THEN await([S1 EXCEPT !.subscription[n] = None], p,
                  Cont("unsubscribe", n, p, from, TRUE))
       ELSE IF from = "ensure"
            THEN [S1 EXCEPT !.mq = Append(@, Cont("ensureAfterUnsubscribe", n, None, from, TRUE))]
            ELSE S1

\* ensureSubscription() without the check for an existing subscription.
ensureSubscriptionBody_noCheck(S, n, out) ==
    IF ~eligible(S, n)
    THEN unsubscribe(S, n, "ensure")
    ELSE IF out = "throw"
    THEN [S EXCEPT !.obs.subscribes = @ + 1,
                   !.obs.rejected = TRUE,
                   !.mq = Append(@, Cont("esGateClear", n, None, "ensure", FALSE))]
    ELSE LET p == Len(S.subs) + 1
             made == [owner |-> n, st |-> out, disposed |-> 0, waiters |-> <<>>]
         IN await([S EXCEPT !.obs.subscribes = @ + 1,
                            !.subs = Append(@, made),
                            !.subscription[n] = p],
                  p, Cont("ensureAfterSubscribe", n, p, "ensure", TRUE))

\* The body of ensureSubscription(), to its first await.  out is what this
\* subscribe() call does: throw, or return a promise still pending, a
\* Disposable, or undefined.
ensureSubscriptionBody(S, n, out) ==
    IF ~eligible(S, n)
    THEN unsubscribe(S, n, "ensure")
    ELSE IF S.subscription[n] # None
    THEN [S EXCEPT !.mq = Append(@, Cont("esGateClear", n, None, "ensure", TRUE))]
    ELSE IF out = "throw"
    THEN [S EXCEPT !.obs.subscribes = @ + 1,
                   !.obs.rejected = TRUE,
                   !.mq = Append(@, Cont("esGateClear", n, None, "ensure", FALSE))]
    ELSE LET p == Len(S.subs) + 1
             made == [owner |-> n, st |-> out, disposed |-> 0, waiters |-> <<>>]
         IN await([S EXCEPT !.obs.subscribes = @ + 1,
                            !.subs = Append(@, made),
                            !.subscription[n] = p],
                  p, Cont("ensureAfterSubscribe", n, p, "ensure", TRUE))

\* ensureSubscription() behind its gate.
ensureSubscription(S, n, out) ==
    LET S1 == [S EXCEPT !.obs.ensures = @ + 1]
    IN IF gateTaken(S.esGate[n])
       THEN [S1 EXCEPT !.obs.gated = TRUE]
       ELSE ensureSubscriptionBody([S1 EXCEPT !.esGate[n] = n], n, out)

\* A call of triggerChange() with no arguments from a handler of node n, with
\* what the node's subscription was like at that moment.
triggerChangeFrom(S, n) ==
    triggerChange([S EXCEPT !.obs.triggers = @ + 1,
                            !.obs.atTrigger = subState(S, n),
                            !.obs.ensuresAtTrigger = S.obs.ensures,
                            !.obs.subscribesAtTrigger = S.obs.subscribes,
                            !.obs.esDoneAtTrigger = ~gateTaken(S.esGate[n])],
                  n, FALSE, FALSE)

\* onVisibilityChanged that triggers the change before it ensures the
\* subscription.
onVisibilityChanged_triggerFirst(S, n, eVisible, out) ==
    ensureSubscription(IF eVisible THEN triggerChangeFrom(S, n) ELSE S, n, out)

\* onVisibilityChanged(e)
onVisibilityChanged(S, n, eVisible, out) ==
    LET S1 == ensureSubscription(S, n, out)
    IN IF eVisible THEN triggerChangeFrom(S1, n) ELSE S1

\* onAutoRefreshChanged that re-dispatches with the auto-refresh flag as the
\* event's visible flag.
onAutoRefreshChanged_byFlag(S, n, out) ==
    onVisibilityChanged(S, n, S.autoRefresh, out)

\* onAutoRefreshChanged()
onAutoRefreshChanged(S, n, out) ==
    onVisibilityChanged(S, n, S.visible, out)

\* set canSubscribe(value) without the test for an unchanged value.
setCanSubscribe_noGuard(S, n, value, out) ==
    LET S1 == ensureSubscription([S EXCEPT !.canSubscribe[n] = value], n, out)
    IN IF value THEN triggerChangeFrom(S1, n) ELSE S1

\* set canSubscribe(value)
setCanSubscribe(S, n, value, out) ==
    IF S.canSubscribe[n] = value
    THEN S
    ELSE LET S1 == ensureSubscription([S EXCEPT !.canSubscribe[n] = value], n, out)
         IN IF value THEN triggerChangeFrom(S1, n) ELSE S1

\* dispose() that disposes the listener registrations before it unsubscribes.
dispose_listenersFirst(S, n) ==
    unsubscribe([S EXCEPT !.disposals[n] = @ + 1,
                          !.obs.unsubscribesAtDispose = S.obs.unsubscribes],
                n, "dispose")

\* dispose()
dispose(S, n) ==
    LET S1 == unsubscribe(S, n, "dispose")
    IN [S1 EXCEPT !.disposals[n] = @ + 1,
                  !.obs.unsubscribesAtDispose = S1.obs.unsubscribes]

\* The optional hooks of a subtype, and the collapsible states an event
\* carries (Collapsed, Expanded); None stands for a _state never assigned.
Hooks == {"onStateChanged", "onParentStateChanged"}
CollapsibleStates == 1..2

\* A subtype's hook is invoked, if the subtype defines it.
invokeHook(S, n, hook, st) ==
    IF hook \in hooks[n]
    THEN [S EXCEPT !.obs.hooks = Append(@, [node |-> n, hook |-> hook, state |-> st])]
    ELSE S

\* onNodeStateChanged that compares the element with getParent().
onNodeStateChanged_logicalParent(S, n, element, st) ==
    IF element = n
    THEN invokeHook([S EXCEPT !.state[n] = st], n, "onStateChanged", st)
    ELSE IF element = getParent(n)
    THEN invokeHook(S, n, "onParentStateChanged", st)
    ELSE S

\* onNodeStateChanged(e)
onNodeStateChanged(S, n, element, st) ==
    IF element = n
    THEN invokeHook([S EXCEPT !.state[n] = st], n, "onStateChanged", st)
    ELSE IF element = parent[n]
    THEN invokeHook(S, n, "onParentStateChanged", st)
    ELSE S

\* ------------------------------------------------------------- microtasks
\* unsubscribe() that drops the awaited subscription without disposing it.
resumeUnsubscribe_noDispose(S, c) ==
    IF c.from = "ensure"
    THEN [S EXCEPT !.mq = Append(@, Cont("ensureAfterUnsubscribe", c.n, None, "ensure",
                                         S.subs[c.p].st # "rejected"))]
    ELSE S

\* The continuation of unsubscribe() after its await: dispose the resource if
\* there is one; a rejected promise makes the await throw.  When
\* ensureSubscription awaits this unsubscribe, it resumes next.
resumeUnsubscribe(S, c) ==
    LET st == S.subs[c.p].st
        S1 == IF st = "resource"
              THEN [S EXCEPT !.subs[c.p].disposed = @ + 1, !.obs.disposes = @ + 1]
              ELSE S
    IN IF c.from = "ensure"
       THEN [S1 EXCEPT !.mq = Append(@, Cont("ensureAfterUnsubscribe", c.n, None, "ensure",
                                             st # "rejected"))]
       ELSE S1

\* The continuation of ensureSubscription() after either of its awaits: the
\* method ends, its promise settles as the awaited one did, and the gate's
\* reaction that empties the slot is queued.
resumeEnsureSubscription(S, c) ==
    LET ok == IF c.k = "ensureAfterSubscribe" THEN S.subs[c.p].st # "rejected" ELSE c.ok
    IN [S EXCEPT !.obs.rejected = ~ok,
                 !.mq = Append(@, Cont("esGateClear", c.n, None, "ensure", ok))]

runMicrotask(S, c) ==
    CASE c.k = "unsubscribe" -> resumeUnsubscribe(S, c)
      [] c.k \in {"ensureAfterSubscribe", "ensureAfterUnsubscribe"} ->
             resumeEnsureSubscription(S, c)
      [] c.k = "esGateClear" -> [S EXCEPT !.esGate[c.n] = None]

\* ---------------------------------------------------------------- actions
StartObs(S, op, n) ==
    [S EXCEPT !.obs = [NoObs EXCEPT !.op = op, !.node = n]]

\* What a subscribe() call may do; one choice stands for all when the step
\* makes no such call (probe is the step with every call returning a promise).
OutcomesOf(probe, O) ==
    IF Len(probe.subs) > Len(subs) THEN O ELSE {"pending"}

RECURSIVE inFlight(_, _)
inFlight(S, i) ==
    IF i > NumNodes THEN 0 ELSE S.refreshing[i] + inFlight(S, i + 1)

Bounded(S) ==
    /\ Len(S.subs) <= MaxSubscribes
    /\ inFlight(S, 1) <= MaxRefreshes
    /\ \A n \in Nodes : S.disposals[n] <= MaxDispose

\* The host fires an event: every node that is still listening handles it, in
\* the order the nodes registered.
RECURSIVE fireVisibility(_, _, _, _)
fireVisibility(S, i, eVisible, outs) ==
    IF i > NumNodes THEN S
    ELSE fireVisibility(
             IF i \in subscribeable /\ S.disposals[i] = 0
             THEN onVisibilityChanged(StartObs(S, "visibility", i), i, eVisible, outs[i])
             ELSE S, i + 1, eVisible, outs)

RECURSIVE fireAutoRefresh(_, _, _)
fireAutoRefresh(S, i, outs) ==
    IF i > NumNodes THEN S
    ELSE fireAutoRefresh(
             IF i \in subscribeable /\ S.disposals[i] = 0
             THEN onAutoRefreshChanged(StartObs(S, "autoRefresh", i), i, outs[i])
             ELSE S, i + 1, outs)

RECURSIVE fireNodeState(_, _, _, _)
fireNodeState(S, i, element, st) ==
    IF i > NumNodes THEN S
    ELSE fireNodeState(
             IF i \in subscribeable /\ S.disposals[i] = 0
             THEN onNodeStateChanged(S, i, element, st)
             ELSE S, i + 1, element, st)

\* The view reports that a node was collapsed or expanded and fires
\* onDidChangeNodeState.
NodeStateChanged(element, st) ==
    Commit(fireNodeState([StartObs(Cur, "nodeState", element) EXCEPT !.obs.eState = st],
                         1, element, st))

\* The view becomes visible or hidden and fires onDidChangeVisibility.
SetVisible(v, O) ==
    /\ v # visible
    /\ LET S0 == [Cur EXCEPT !.visible = v, !.obs = NoObs]
           probe == fireVisibility(S0, 1, v, [n \in subscribeable |-> "pending"])
       IN \E outs \in [subscribeable -> OutcomesOf(probe, O)] :
            LET S == fireVisibility(S0, 1, v, outs)
            IN Bounded(S) /\ Commit(S)

\* The view's auto-refresh is switched and it fires onDidChangeAutoRefresh.
SetAutoRefresh(v, O) ==
    /\ supportsAutoRefresh
    /\ v # autoRefresh
    /\ LET S0 == [Cur EXCEPT !.autoRefresh = v, !.obs = NoObs]
           probe == fireAutoRefresh(S0, 1, [n \in subscribeable |-> "pending"])
       IN \E outs \in [subscribeable -> OutcomesOf(probe, O)] :
            LET S == fireAutoRefresh(S0, 1, outs)
            IN Bounded(S) /\ Commit(S)

\* A subtype assigns canSubscribe.
SetCanSubscribe(n, v, O) ==
    /\ n \in subscribeable
    /\ LET S0 == StartObs(Cur, "canSubscribe", n)
       IN \E out \in OutcomesOf(setCanSubscribe(S0, n, v, "pending"), O) :
            LET S == setCanSubscribe(S0, n, v, out)
            IN Bounded(S) /\ Commit(S)

\* ensureSubscription() is called on the node directly.
CallEnsureSubscription(n, O) ==
    /\ n \in subscribeable
    /\ LET S0 == StartObs(Cur, "ensure", n)
       IN \E out \in OutcomesOf(ensureSubscription(S0, n, "pending"), O) :
            LET S == ensureSubscription(S0, n, out)
            IN Bounded(S) /\ Commit(S)

\* A subtype calls unsubscribe() directly.
CallUnsubscribe(n) ==
    /\ n \in subscribeable
    /\ Commit(unsubscribe(StartObs(Cur, "unsubscribe", n), n, "direct"))

\* dispose() is called on the node.
Dispose(n) ==
    /\ n \in subscribeable
    /\ LET S == dispose(StartObs(Cur, "dispose", n), n)
       IN Bounded(S) /\ Commit(S)

\* triggerChange(reset, force) is called on a node directly.
CallTriggerChange(n, reset, force) ==
    LET S == triggerChange([StartObs(Cur, "trigger", n) EXCEPT !.obs.reset = reset,
                                                               !.obs.force = force],
                           n, reset, force)
    IN Bounded(S) /\ Commit(S)

\* getParent() is called on a node.
CallGetParent(n) ==
    Commit([StartObs(Cur, "getParent", n) EXCEPT !.obs.result = getParent(n)])

\* A subtype sets or clears a node's splatted flag.
SetSplatted(n, b) ==
    /\ splatted[n] # b
    /\ splatted' = [splatted EXCEPT ![n] = b]
    /\ obs' = NoObs
    /\ UNCHANGED <<parent, subscribeable, supportsAutoRefresh, visible, autoRefresh,
                   canSubscribe, subscription, subs, esGate, tcGate,
                   refreshing, disposals, state, hooks, mq>>

\* The promise a subscribe() call returned settles: the continuations waiting
\* on it are queued in the order they started to wait.
SubscribeSettles(p, st) ==
    /\ p \in 1..Len(subs)
    /\ subs[p].st = "pending"
    /\ Commit([Cur EXCEPT !.subs[p].st = st,
                          !.subs[p].waiters = <<>>,
                          !.mq = @ \o subs[p].waiters,
                          !.obs = NoObs])

\* The host finishes a refresh: the promise refreshNode returned settles, and
\* with it the promise in the slot of every triggerChange waiting for it; the
\* gate empties those slots.
RefreshCompletes(t) ==
    /\ refreshing[t] > 0
    /\ Commit([Cur EXCEPT
           !.refreshing[t] = @ - 1,
           !.tcGate = [n \in Nodes |-> IF @[n] = t THEN None ELSE @[n]],
           !.obs = NoObs])

\* The job at the head of the microtask queue runs.
RunMicrotask ==
    /\ mq # <<>>
    /\ Commit(forget(runMicrotask(
           [StartObs(Cur, "microtask", Head(mq).n) EXCEPT !.mq = Tail(@)], Head(mq))))

\* ---------------------------------------------------------- specifications
Flags == BOOLEAN

InitCommon ==
    /\ canSubscribe = [n \in Nodes |-> TRUE]
    /\ subscription = [n \in Nodes |-> None]
    /\ subs = <<>>
    /\ esGate = [n \in Nodes |-> None]
    /\ tcGate = [n \in Nodes |-> None]
    /\ refreshing = [n \in Nodes |-> 0]
    /\ disposals = [n \in Nodes |-> 0]
    /\ state = [n \in Nodes |-> None]
    /\ mq = <<>>
    /\ obs = NoObs
    /\ splatted = [n \in Nodes |-> FALSE]

\* The subscription life cycle of one SubscribeableViewNode, the last node of
\* a chain, under a view that may or may not support auto-refresh.
Init ==
    /\ InitCommon
    /\ parent = [n \in Nodes |-> n - 1]
    /\ subscribeable = {NumNodes}
    /\ hooks = [n \in Nodes |-> {}]
    /\ supportsAutoRefresh \in BOOLEAN
    /\ visible \in BOOLEAN
    /\ autoRefresh \in (IF supportsAutoRefresh THEN BOOLEAN ELSE {FALSE})

Next ==
    \/ \E v \in BOOLEAN : SetVisible(v, Outcomes)
    \/ \E v \in BOOLEAN : SetAutoRefresh(v, Outcomes)
    \/ \E n \in Nodes, v \in BOOLEAN : SetCanSubscribe(n, v, Outcomes)
    \/ \E n \in Nodes : CallEnsureSubscription(n, Outcomes)
    \/ \E n \in Nodes : CallUnsubscribe(n)
    \/ \E n \in Nodes : Dispose(n)
    \/ \E p \in 1..MaxSubscribes, st \in Settled : SubscribeSettles(p, st)
    \/ \E t \in Nodes : RefreshCompletes(t)
    \/ RunMicrotask

Spec == Init /\ [][Next]_vars

\* Subscribing and disposing under a view whose visibility changes, with the
\* event loop running every queued job.
InitTeardown == Init /\ ~supportsAutoRefresh

NextTeardown ==
    \/ \E v \in BOOLEAN : SetVisible(v, Outcomes)
    \/ \E n \in Nodes : CallEnsureSubscription(n, Outcomes)
    \/ \E n \in Nodes : Dispose(n)
    \/ \E p \in 1..MaxSubscribes, st \in Settled : SubscribeSettles(p, st)
    \/ \E t \in Nodes : RefreshCompletes(t)
    \/ RunMicrotask

SpecTeardown == InitTeardown /\ [][NextTeardown]_vars /\ WF_vars(RunMicrotask)

\* The same node driven only by the host's events and by canSubscribe
\* assignments, with a subscribe() that always yields a Disposable, at once or
\* later, starting from a hidden view.
Reliable == {"pending", "resource"}

InitDriven == Init /\ ~visible

NextDriven ==
    \/ \E v \in BOOLEAN : SetVisible(v, Reliable)
    \/ \E v \in BOOLEAN : SetAutoRefresh(v, Reliable)
    \/ \E n \in Nodes, v \in BOOLEAN : SetCanSubscribe(n, v, Reliable)
    \/ \E p \in 1..MaxSubscribes : SubscribeSettles(p, "resource")
    \/ \E t \in Nodes : RefreshCompletes(t)
    \/ RunMicrotask

SpecDriven == InitDriven /\ [][NextDriven]_vars

\* Refresh requests on a tree of plain nodes: any parent links that form a
\* forest, splatted flags set and cleared by the subtypes.
Forests == {f \in [Nodes -> Nodes \cup {None}] : \A n \in Nodes : f[n] < n}

InitRefresh ==
    /\ InitCommon
    /\ parent \in Forests
    /\ subscribeable = {}
    /\ hooks = [n \in Nodes |-> {}]
    /\ supportsAutoRefresh = FALSE
    /\ visible = TRUE
    /\ autoRefresh = FALSE

NextRefresh ==
    \/ \E n \in Nodes, b \in BOOLEAN : SetSplatted(n, b)
    \/ \E n \in Nodes, reset \in Flags, force \in Flags : CallTriggerChange(n, reset, force)
    \/ \E t \in Nodes : RefreshCompletes(t)

SpecRefresh == InitRefresh /\ [][NextRefresh]_vars

\* getParent() on every node of every forest under every choice of splatted
\* flags.
NextTree ==
    \/ \E n \in Nodes, b \in BOOLEAN : SetSplatted(n, b)
    \/ \E n \in Nodes : CallGetParent(n)

SpecTree == InitRefresh /\ [][NextTree]_vars

\* Node-state events on every forest in which all nodes but the first are
\* SubscribeableViewNodes of one subtype, under every choice of the hooks that
\* subtype defines and of splatted flags.
InitState ==
    /\ InitCommon
    /\ parent \in Forests
    /\ subscribeable = Nodes \ {1}
    /\ \E defined \in SUBSET Hooks :
         hooks = [n \in Nodes |-> IF n \in subscribeable THEN defined ELSE {}]
    /\ supportsAutoRefresh = FALSE
    /\ visible = TRUE
    /\ autoRefresh = FALSE

NextState ==
    \/ \E n \in Nodes, b \in BOOLEAN : SetSplatted(n, b)
    \/ \E element \in Nodes, st \in CollapsibleStates : NodeStateChanged(element, st)

SpecState == InitState /\ [][NextState]_vars

\* A chain of nodes whose last two are SubscribeableViewNodes: refresh
\* requests on all of them under every choice of splatted flags, and
\* ensureSubscription calls on the two, with a subscribe() that returns a
\* promise that resolves later.
InitGates ==
    /\ InitCommon
    /\ parent = [n \in Nodes |-> n - 1]
    /\ subscribeable = {NumNodes - 1, NumNodes}
    /\ hooks = [n \in Nodes |-> {}]
    /\ supportsAutoRefresh = FALSE
    /\ visible = TRUE
    /\ autoRefresh = FALSE

NextGates ==
    \/ \E n \in Nodes, b \in BOOLEAN : SetSplatted(n, b)
    \/ \E n \in Nodes : CallTriggerChange(n, FALSE, FALSE)
    \/ \E n \in Nodes : CallEnsureSubscription(n, {"pending"})
    \/ \E p \in 1..MaxSubscribes : SubscribeSettles(p, "resource")
    \/ \E t \in Nodes : RefreshCompletes(t)
    \/ RunMicrotask

SpecGates == InitGates /\ [][NextGates]_vars

\* ------------------------------------------------------------------ claims
\* Nothing of node n is in flight: no ensureSubscription evaluation, no
\* subscribe() promise still pending, no continuation of its methods queued or
\* waiting.
Quiescent(n) ==
    /\ ~gateTaken(esGate[n])
    /\ \A i \in 1..Len(mq) : mq[i].n # n
    /\ \A p \in 1..Len(subs) :
         subs[p].owner = n => subs[p].st # "pending" /\ subs[p].waiters = <<>>

\* C1: in every quiescent state after the driving events (visibility changes,
\* auto-refresh changes, canSubscribe assignments) the node holds an active
\* subscription if and only if it is eligible: canSubscribe, the view visible
\* and auto-refresh on where the view supports it.
C1_EligibilityGating ==
    \A n \in subscribeable :
        Quiescent(n) => (subState(Cur, n) = "Subscribed" <=> eligible(Cur, n))

\* C2: an ensureSubscription call made while the node is eligible and either a
\* subscription is already pending or active or an earlier call is still in
\* flight invokes subscribe() not at all and leaves the subscription as it is;
\* made with no call in flight and no subscription, it invokes subscribe()
\* exactly once and, unless that throws, records exactly that promise: so any
\* number of such calls makes one subscribe() call and one subscription.
C2_SubscriptionIdempotence ==
    [][\A n \in subscribeable :
         (obs'.node = n /\ obs'.ensures > 0 /\ eligible(Cur, n)') =>
            /\ obs'.ensures = 1
            /\ IF subscription[n] # None \/ gateTaken(esGate[n])
               THEN /\ obs'.subscribes = 0
                    /\ subs' = subs
                    /\ subscription'[n] = subscription[n]
               ELSE /\ obs'.subscribes = 1
                    /\ \/ obs'.rejected /\ subs' = subs /\ subscription'[n] = None
                       \/ /\ Len(subs') = Len(subs) + 1
                          /\ subscription'[n] = Len(subs')]_vars

\* Two ensureSubscription calls overlapped on an eligible node: the second
\* joined the first, whose subscribe() promise is still pending.
C2_Witness ==
    \E n \in subscribeable :
        /\ obs.op = "ensure" /\ obs.node = n /\ obs.gated /\ obs.subscribes = 0
        /\ eligible(Cur, n)
        /\ subState(Cur, n) = "SubscriptionPending"
        /\ Len(subs) = 1

\* A promise whose resource exists or may come to exist and has not been
\* disposed.
Live(p) ==
    \/ subs[p].st = "pending"
    \/ subs[p].st = "resource" /\ subs[p].disposed = 0

\* C3: at most one subscribe() result of a node is pending or undisposed at
\* any time.
C3_AtMostOneLive ==
    \A n \in subscribeable :
        Cardinality({p \in 1..Len(subs) : subs[p].owner = n /\ Live(p)}) <= 1

\* The continuation of the unsubscribe() that dispose() started on promise p.
DisposeWaits(c, p) == c.k = "unsubscribe" /\ c.from = "dispose" /\ c.p = p

\* C4: when dispose() has been called on a node whose subscription was
\* pending and subscribe()'s promise resolves with a resource, that resource is
\* eventually disposed (its promise ends up released: disposed exactly once and
\* referred to by nothing).
C4_TeardownSafety ==
    \A p \in 1..MaxSubscribes :
        (/\ p <= Len(subs)
         /\ subs[p].st = "resource"
         /\ \E i \in 1..Len(mq) : DisposeWaits(mq[i], p))
        ~> (p <= Len(subs) /\ subs[p].st = "done")

\* dispose() was called while the subscription was pending: its unsubscribe
\* waits on the pending promise.
C4_Witness ==
    \E p \in 1..Len(subs) :
        /\ subs[p].st = "pending"
        /\ \E i \in 1..Len(subs[p].waiters) : DisposeWaits(subs[p].waiters[i], p)
        /\ disposals[subs[p].owner] = 1

\* C5: at most one view.refreshNode call per target is in flight, and a
\* triggerChange call that finds an earlier one on its node or on the node it
\* delegates to still in flight starts no refreshNode.
C5_RefreshReentrancy ==
    /\ \A n \in Nodes : refreshing[n] <= 1
    /\ \A n \in Nodes : refreshing[n] = 1 => gateTaken(tcGate[n])
    /\ Len(obs.refreshes) <= 1

\* A triggerChange arrived by delegation from a splatted child while the
\* parent's refresh was in flight, and started no refresh.
C5_Witness ==
    /\ obs.op = "trigger" /\ obs.refreshes = <<>>
    /\ splatted[obs.node] /\ parent[obs.node] # None
    /\ ~splatted[parent[obs.node]]
    /\ refreshing[parent[obs.node]] = 1
    /\ tcGate[obs.node] = parent[obs.node]

\* C6: with nothing in flight, triggerChange(reset, force) on a splatted node
\* with a parent makes exactly one refreshNode call, on the nearest
\* non-splatted ancestor when there is one, with the flags passed; on any other
\* node it makes exactly one refreshNode call on the node itself.
C6_RefreshDelegation ==
    [][(obs'.op = "trigger" /\ \A m \in Nodes : ~gateTaken(tcGate[m])) =>
        LET n == obs'.node
            call(t) == <<[target |-> t, reset |-> obs'.reset, force |-> obs'.force]>>
        IN IF splatted[n] /\ parent[n] # None
           THEN /\ Len(obs'.refreshes) = 1
                /\ getParent(n) # None => obs'.refreshes = call(getParent(n))
                /\ ~splatted[obs'.refreshes[1].target] \/ parent[obs'.refreshes[1].target] = None
           ELSE obs'.refreshes = call(n)]_vars

\* triggerChange(TRUE, -) on the lower end of a chain of two splatted nodes
\* refreshed the non-splatted node above them.
C6_Witness ==
    LET n == obs.node IN
    /\ obs.op = "trigger" /\ obs.reset
    /\ splatted[n] /\ parent[n] # None
    /\ splatted[parent[n]] /\ parent[parent[n]] # None
    /\ ~splatted[parent[parent[n]]]
    /\ obs.refreshes = <<[target |-> parent[parent[n]], reset |-> TRUE, force |-> obs.force]>>

\* The k-th structural ancestor of n (n itself for k = 0), None beyond the root.
RECURSIVE up(_, _)
up(n, k) == IF k = 0 \/ n = None THEN n ELSE up(parent[n], k - 1)

\* C7: getParent() returns the nearest structural ancestor that is not
\* splatted, and undefined when there is none.
C7_GetParentNeverSplatted ==
    obs.op = "getParent" =>
        LET n == obs.node
            shown == {k \in 1..NumNodes : up(n, k) # None /\ ~splatted[up(n, k)]}
        IN IF shown = {}
           THEN obs.result = None
           ELSE /\ obs.result = up(n, CHOOSE k \in shown : \A j \in shown : k <= j)
                /\ ~splatted[obs.result]

\* getParent() walked through two splatted ancestors.
C7_Witness ==
    LET n == obs.node IN
    /\ obs.op = "getParent"
    /\ parent[n] # None /\ splatted[parent[n]]
    /\ parent[parent[n]] # None /\ splatted[parent[parent[n]]]

\* C8: when ensureSubscription fails because subscribe() failed, the node is
\* left Unsubscribed: its subscription slot is empty.
C8_SubscriptionFailure ==
    \A n \in subscribeable :
        (obs.node = n /\ obs.rejected) => subscription[n] = None

\* C9 as stated: when an Unsubscribed, eligible node receives a visibility
\* event with visible = true, ensureSubscription has completed and the node is
\* Subscribed when triggerChange is invoked.
C9_SubscribedBeforeRefresh ==
    [][\A n \in subscribeable :
         (/\ obs'.op = "visibility" /\ obs'.node = n /\ visible'
          /\ subscription[n] = None /\ eligible(Cur, n)') =>
            /\ obs'.triggers = 1
            /\ obs'.atTrigger = "Subscribed"
            /\ obs'.esDoneAtTrigger]_vars

\* C9 as the code has it: ensureSubscription is invoked before triggerChange
\* but not awaited.  When triggerChange is invoked, ensureSubscription has been
\* called once and is still in flight; unless it joined an earlier call,
\* subscribe() has been invoked and, unless that threw, its promise is in the
\* slot.
C9_SubscribeStartedBeforeRefresh ==
    [][\A n \in subscribeable :
         (/\ obs'.op = "visibility" /\ obs'.node = n /\ visible'
          /\ subscription[n] = None /\ eligible(Cur, n)') =>
            /\ obs'.triggers = 1
            /\ obs'.ensuresAtTrigger = 1
            /\ ~obs'.esDoneAtTrigger
            /\ ~gateTaken(esGate[n]) =>
                 /\ obs'.subscribesAtTrigger = 1
                 /\ obs'.rejected \/ obs'.atTrigger \in {"SubscriptionPending", "Subscribed", "Empty"}]_vars

\* A visibility event made an Unsubscribed node subscribe and then trigger
\* the change with the subscription still pending.
C9_Witness ==
    /\ obs.op = "visibility" /\ visible
    /\ obs.subscribes = 1 /\ obs.triggers = 1
    /\ obs.atTrigger = "SubscriptionPending"
    /\ ~obs.esDoneAtTrigger

\* C10: when a node is Subscribed and canSubscribe goes from true to false,
\* unsubscribe takes the subscription out of the slot (to dispose it once it
\* has awaited it), and no triggerChange and no refreshNode call is made.
C10_DisableTeardown ==
    [][\A n \in subscribeable :
         (canSubscribe[n] /\ ~canSubscribe'[n] /\ subState(Cur, n) = "Subscribed") =>
            /\ obs'.unsubscribes = 1
            /\ subscription'[n] = None
            /\ \E i \in 1..Len(mq') :
                 mq'[i].k = "unsubscribe" /\ mq'[i].p = subscription[n]
            /\ obs'.triggers = 0
            /\ obs'.refreshes = <<>>]_vars

\* The hook invocations node Y made in the step described by o, in order.
hooksOf(o, Y) ==
    LET mine(h) == h.node = Y
    IN SelectSeq(o.hooks, mine)

\* C11: a node-state-change event with element T and state st, delivered to
\* node Y: if T is Y, Y's _state becomes st and Y invokes onStateChanged(st),
\* if it defines it, and nothing else; else if T is Y's parent field, Y
\* invokes onParentStateChanged(st), if it defines it, and keeps its _state;
\* otherwise Y invokes no hook and keeps its _state.
C11_StateRouting ==
    [][obs'.op = "nodeState" =>
        LET T == obs'.node
            st == obs'.eState
            call(Y, hook) == IF hook \in hooks[Y]
                             THEN <<[node |-> Y, hook |-> hook, state |-> st]>>
                             ELSE <<>>
        IN \A Y \in subscribeable :
             disposals[Y] = 0 =>
               IF T = Y
               THEN state'[Y] = st /\ hooksOf(obs', Y) = call(Y, "onStateChanged")
               ELSE IF T = parent[Y]
               THEN state'[Y] = state[Y] /\ hooksOf(obs', Y) = call(Y, "onParentStateChanged")
               ELSE state'[Y] = state[Y] /\ hooksOf(obs', Y) = <<>>]_vars

\* One event made its element record the state and invoke onStateChanged, and
\* a child of the element invoke onParentStateChanged.
C11_Witness ==
    /\ obs.op = "nodeState"
    /\ \E X, Y \in subscribeable :
         /\ obs.node = X /\ parent[Y] = X
         /\ obs.hooks = <<[node |-> X, hook |-> "onStateChanged", state |-> obs.eState],
                          [node |-> Y, hook |-> "onParentStateChanged", state |-> obs.eState]>>
         /\ state[X] = obs.eState

\* C12 as stated: dispose() on a node with a pending or active subscription
\* has awaited the subscription and disposed its resource when it disposes the
\* listener registrations, which it does once.
C12_UnsubscribedBeforeListeners ==
    [][\A n \in subscribeable :
         (/\ obs'.op = "dispose" /\ obs'.node = n
          /\ subState(Cur, n) \in {"SubscriptionPending", "Subscribed"}) =>
            /\ disposals'[n] = disposals[n] + 1
            /\ \/ subs'[subscription[n]].st = "done"
               \/ subs'[subscription[n]].disposed = 1]_vars

\* C12 as the code has it: dispose() invokes unsubscribe() first, which
\* empties the slot and starts to wait for the subscription, and then, without
\* waiting, disposes the listener registrations, once; the subscription's
\* resource is not yet disposed at that moment.
C12_UnsubscribeStartedBeforeListeners ==
    [][\A n \in subscribeable :
         (/\ obs'.op = "dispose" /\ obs'.node = n
          /\ subState(Cur, n) \in {"SubscriptionPending", "Subscribed"}) =>
            LET p == subscription[n] IN
            /\ obs'.unsubscribes = 1
            /\ obs'.unsubscribesAtDispose = 1
            /\ subscription'[n] = None
            /\ disposals'[n] = disposals[n] + 1
            /\ subs'[p].st = subs[p].st /\ subs'[p].disposed = 0
            /\ \/ \E i \in 1..Len(mq') : DisposeWaits(mq'[i], p)
               \/ \E i \in 1..Len(subs'[p].waiters) : DisposeWaits(subs'[p].waiters[i], p)]_vars

\* dispose() was called on a Subscribed node: the listener registrations are
\* disposed and the resource is not yet.
C12_Witness ==
    \E p \in 1..Len(subs) :
        /\ obs.op = "dispose" /\ obs.node = subs[p].owner
        /\ disposals[subs[p].owner] = 1
        /\ subscription[subs[p].owner] = None
        /\ subs[p].st = "resource" /\ subs[p].disposed = 0
        /\ \E i \in 1..Len(mq) : DisposeWaits(mq[i], p)

\* C13: once dispose() has been called on a node, the node never again has a
\* pending or active subscription.
C13_NoResubscribeAfterDispose ==
    \A n \in subscribeable :
        disposals[n] > 0 => subState(Cur, n) \notin {"SubscriptionPending", "Subscribed"}

\* C14: every ensureSubscription call acts on the eligibility it finds: on an
\* ineligible node with a subscription in the slot it unsubscribes, on an
\* eligible node with an empty slot it invokes subscribe(), also when an
\* earlier call on the node is still pending.
C14_EnsureOrdering ==
    [][\A n \in subscribeable :
         (obs'.node = n /\ obs'.ensures > 0) =>
            /\ (~eligible(Cur, n)' /\ subscription[n] # None) =>
                  (obs'.unsubscribes = 1 /\ subscription'[n] = None)
            /\ (eligible(Cur, n)' /\ subscription[n] = None) =>
                  obs'.subscribes = 1]_vars

\* C15: once an ensureSubscription whose subscribe() yielded nothing has run
\* to its end, the subscription slot is empty: with nothing of the node in
\* flight, the slot never holds a promise that resolved with undefined.
C15_EmptySubscribeResult ==
    \A n \in subscribeable :
        Quiescent(n) => subState(Cur, n) # "Empty"

\* C16: a node's handler of an auto-refresh change invokes ensureSubscription
\* once, and triggerChange once if the view is visible and not at all if it is
\* hidden, whatever the new auto-refresh value; its handler of a visibility
\* event invokes ensureSubscription once, and triggerChange once if the event
\* says visible and not at all otherwise.
C16_AutoRefreshRedispatch ==
    [][\A n \in subscribeable :
         (obs'.node = n /\ obs'.op \in {"autoRefresh", "visibility"}) =>
            /\ obs'.ensures = 1
            /\ obs'.triggers = (IF visible' THEN 1 ELSE 0)
            /\ obs'.triggers = 1 => obs'.ensuresAtTrigger = 1
            /\ obs'.op = "autoRefresh" => visible' = visible /\ autoRefresh' # autoRefresh]_vars

\* Auto-refresh was switched off under a visible view: the handler invoked
\* ensureSubscription, which unsubscribed, and triggerChange.
C16_Witness ==
    /\ obs.op = "autoRefresh"
    /\ ~autoRefresh /\ visible
    /\ obs.ensures = 1 /\ obs.unsubscribes = 1
    /\ obs.triggers = 1

\* The nodes whose triggerChange a triggerChange call on n runs through: n and,
\* while the node reached is splatted and has a parent, that parent.
RECURSIVE delegationChain(_)
delegationChain(n) ==
    {n} \cup (IF splatted[n] /\ parent[n] # None THEN delegationChain(parent[n]) ELSE {})

\* C17 as stated: a triggerChange call on a node none of whose own
\* triggerChange calls is in flight is not coalesced, it starts its refresh,
\* and an ensureSubscription call on a node none of whose own ensureSubscription
\* calls is in flight runs its body, whatever is in flight on other nodes.
C17_GatePerNode ==
    [][/\ (obs'.op = "trigger" /\ ~gateTaken(tcGate[obs'.node])) =>
              Len(obs'.refreshes) = 1
       /\ (obs'.op = "ensure" /\ ~gateTaken(esGate[obs'.node])) =>
              ~obs'.gated]_vars

\* C17 as the code has it: a triggerChange call on B starts its refresh if and
\* only if no triggerChange is in flight on B or on a node B's call is
\* delegated to; an ensureSubscription call on B is coalesced if and only if an
\* ensureSubscription of B is in flight.  Nothing else matters: not what is in
\* flight on other nodes, nor the other method's calls on B.
C17_GatePerNodeAndDelegate ==
    [][/\ obs'.op = "trigger" =>
            /\ Len(obs'.refreshes) <= 1
            /\ Len(obs'.refreshes) = 1 <=>
                  \A m \in delegationChain(obs'.node) : ~gateTaken(tcGate[m])
       /\ obs'.op = "ensure" =>
            (obs'.gated <=> gateTaken(esGate[obs'.node]))]_vars

\* A triggerChange on B started its refresh while an ensureSubscription of B
\* and a refresh requested through another node, off B's delegation chain,
\* were in flight.
C17_Witness ==
    /\ obs.op = "trigger" /\ Len(obs.refreshes) = 1
    /\ obs.node \in subscribeable /\ gateTaken(esGate[obs.node])
    /\ \E A \in Nodes \ delegationChain(obs.node) :
         tcGate[A] = A /\ refreshing[A] = 1

\* C18: a triggerChange(r2, f2) call on a node on which a triggerChange is in
\* flight starts no refreshNode and changes nothing, and no refreshNode is ever
\* started for it later: every refreshNode call is started by a triggerChange
\* call that found its node's gate empty, and carries that call's own flags.
C18_CoalescedFlagsDiscarded ==
    [][/\ (obs'.op = "trigger" /\ gateTaken(tcGate[obs'.node])) =>
            /\ obs'.refreshes = <<>>
            /\ refreshing' = refreshing
            /\ tcGate' = tcGate
       /\ \A t \in Nodes :
            refreshing'[t] > refreshing[t] =>
               /\ obs'.op = "trigger" /\ ~gateTaken(tcGate[obs'.node])
               /\ obs'.refreshes = <<[target |-> t, reset |-> obs'.reset,
                                      force |-> obs'.force]>>]_vars

\* triggerChange(true, true) was called on a node whose own refresh is in
\* flight, and started nothing.
C18_Witness ==
    /\ obs.op = "trigger" /\ obs.reset /\ obs.force
    /\ obs.refreshes = <<>>
    /\ tcGate[obs.node] = obs.node
    /\ refreshing[obs.node] = 1

\* C19: each resource subscribe() returned has its dispose() invoked at most
\* once, under every interleaving of dispose() calls, direct unsubscribe()
\* calls, ensureSubscription evaluations on an ineligible node and canSubscribe
\* assignments.
C19_SingleDisposal ==
    /\ \A p \in 1..Len(subs) : subs[p].disposed <= 1
    /\ obs.disposes <= 1

\* A resource was disposed on a node on which dispose() had been called twice
\* and an ensureSubscription was in flight.
C19_Witness ==
    /\ obs.op = "microtask" /\ obs.disposes = 1
    /\ obs.node \in subscribeable
    /\ disposals[obs.node] = 2
    /\ gateTaken(esGate[obs.node])

\* C20: assigning canSubscribe the value it has invokes neither
\* ensureSubscription, subscribe, unsubscribe nor triggerChange and leaves the
\* subscription as it was; assigning it another value invokes ensureSubscription
\* once, and triggerChange, after ensureSubscription, exactly when the new
\* value is true.
C20_SameValueNoOp ==
    [][\A n \in subscribeable :
         (obs'.op = "canSubscribe" /\ obs'.node = n) =>
            IF canSubscribe'[n] = canSubscribe[n]
            THEN /\ obs'.ensures = 0 /\ obs'.subscribes = 0
                 /\ obs'.unsubscribes = 0 /\ obs'.triggers = 0
                 /\ obs'.refreshes = <<>>
                 /\ UNCHANGED <<subscription, subs, esGate, tcGate, refreshing, mq>>
            ELSE /\ obs'.ensures = 1
                 /\ obs'.triggers = (IF canSubscribe'[n] THEN 1 ELSE 0)
                 /\ obs'.triggers = 1 => obs'.ensuresAtTrigger = 1]_vars

\* canSubscribe = true was assigned on a Subscribed node whose canSubscribe
\* was true, with nothing of the node in flight.
C20_Witness ==
    \E n \in subscribeable :
        /\ obs.op = "canSubscribe" /\ obs.node = n
        /\ obs.ensures = 0 /\ obs.triggers = 0
        /\ canSubscribe[n]
        /\ subState(Cur, n) = "Subscribed"
        /\ Quiescent(n)
        /\ \A m \in Nodes : ~gateTaken(tcGate[m])

====
